---- MODULE Spec2Model ----
(***************************************************************************)
(* A state-machine model of src/script.js, the page-enhancement script of  *)
(* a portfolio site.  The file holds two near-duplicate versions of the    *)
(* script: lines 1-881 ("version 1", with section highlights and the nav   *)
(* highlight) and lines 883-1514 ("version 2").  The variable `version`    *)
(* says which of the two is running; a page runs one of them.              *)
(*                                                                         *)
(* The host (browser) is modelled by: a document with optional control     *)
(* elements, a scroll position, a queue of requestAnimationFrame           *)
(* callbacks, and a bag of pending setTimeout timers.  Every listener runs *)
(* to completion; a scroll event runs the scroll listeners in registration *)
(* order within one step.                                                  *)
(*                                                                         *)
(* The model works at the level of the functions and listeners the script  *)
(* defines.  Declaration order of the const-bound helpers inside one       *)
(* version (throttle is bound at line 849 and used at line 454; navMenu is *)
(* bound at lines 382 and 632) is not modelled.                            *)
(*                                                                         *)
(* Every subsystem has a specification of its own over the same variables: *)
(* Spec (scrolling), SpecBoot (start-up over every document), SpecErrors   *)
(* (error events), SpecMenu and SpecAnyMenu (the mobile menu),             *)
(* SpecBoundary (the reveal boundary), SpecThrottle (scrolling under a     *)
(* clock), SpecNav (the nav highlight), SpecTimers (the timers of the      *)
(* section loop), SpecType (the typing effect), SpecLoader (the loading    *)
(* screen), SpecSmooth (smooth scrolling) and SpecPro (section views and   *)
(* the progress bar).  The objects initProfessionalFeatures creates are    *)
(* left aside (RunScript) by the specifications that are not about them    *)
(* and created (RunScriptPro) by those that are.                           *)
(***************************************************************************)
EXTENDS Integers, Sequences, FiniteSets, TLC

(***************************************************************************)
(* Bounds of the model (inputs of the host, not program constants).        *)
(***************************************************************************)
\* window.innerHeight of the page
InnerHeight == 200
\* scroll events the host delivers between two frame ticks
MaxScrollsPerFrame == 3
\* setTimeout timers pending at the same time
MaxTimers == 4
\* in/out-of-band transitions of the observed section that are counted
MaxToggles == 3
\* error and unhandledrejection events the host delivers
MaxErrorEvents == 3
\* milliseconds the clock advances by in one step, and the last instant
TickStep == 50
MaxTime == 300
\* characters of the longest hero title
MaxTextLen == 3
\* pending timers of the TypeWriter the host is asked to fire
MaxTypeTimers == 2
\* milliseconds the clock of the loading screen advances by in one step,
\* and the last instant at which it may stop
LoaderStep == 500
LoaderMaxTime == 1500
\* smooth-scroll animations each of the two listeners starts in one run, and
\* the longest gap between two animation frames in units of 100 ms
MaxAnimations == 1
MaxFrameGap == 2
\* clicks on the button that AnalyticsTracker records
MaxButtonClicks == 1

(***************************************************************************)
(* Program constants.                                                      *)
(***************************************************************************)
\* revealOnScroll: elementTop < windowHeight - 100
RevealMargin == 100
\* revealOnScroll: sectionTop < windowHeight - 50
HighlightMargin == 50
\* updateHeader: currentScrollY > 50
HeaderThreshold == 50
\* back-to-top listener: window.pageYOffset > 300
BackToTopThreshold == 300
\* back-to-top listener: throttle(..., 100)
ThrottleLimit == 100
\* updateActiveNavItem: window.scrollY + 100
NavOffset == 100

(***************************************************************************)
(* The document.  Optional control elements may be missing; the content    *)
(* elements are fixed.                                                     *)
(***************************************************************************)
Optional == {"navToggle", "navMenu", "header", "backToTop"}

\* content elements: the hero section, an experience card, a section that is
\* itself a reveal element, and a section holding a section group, a degree
\* card and the martial-arts belt card
Content == {"hero", "card", "about", "edu", "group", "degree", "belt"}

\* the links of the nav menu, in document order
NavLinks == <<"linkHome", "linkAbout", "linkContact">>

Links == {NavLinks[i] : i \in 1..Len(NavLinks)}

\* the icon of the nav toggle: navToggle.querySelector('i')
Elems == {"header", "backToTop", "navMenu", "icon"} \cup Links \cup Content

\* tag name of a content element
IsSection(e) == e \in {"hero", "about", "edu"}

\* the section elements of the document
Sections == {e \in Content : IsSection(e)}

\* the sections that have an id, in document order, and their ids
NavSections == <<"hero", "about", "edu">>

SectionId(e) ==
    CASE e = "hero"  -> "home"
      [] e = "about" -> "about"
      [] e = "edu"   -> "education"

\* the id a nav link's href names
LinkTarget(l) ==
    CASE l = "linkHome"    -> "home"
      [] l = "linkAbout"   -> "about"
      [] l = "linkContact" -> "contact"

\* the class attribute of each element in the markup
Markup(e) ==
    CASE e = "card"   -> {"experience__card"}
      [] e = "about"  -> {"reveal"}
      [] e = "edu"    -> {"education-career"}
      [] e = "group"  -> {"section-group"}
      [] e = "degree" -> {"degree-card"}
      [] e = "belt"   -> {"martial-belt-card"}
      [] e = "navMenu" -> {"nav__menu"}
      [] e = "icon"   -> {"fas", "fa-bars"}
      [] e \in Links  -> {"nav__link"}
      [] OTHER        -> {}

\* the section an element lies in (itself when it lies in none)
Parent(e) == IF e \in {"group", "degree", "belt"} THEN "edu" ELSE e

\* distance of an element's top edge from the top of the document
OffsetTop(e) ==
    CASE e = "card"   -> 150
      [] e = "about"  -> 200
      [] e = "edu"    -> 400
      [] e = "group"  -> 420
      [] e = "degree" -> 440
      [] e = "belt"   -> 460
      [] OTHER        -> 0

\* offsetHeight of a section
OffsetHeight(e) ==
    CASE e = "hero"  -> 200
      [] e = "about" -> 200
      [] e = "edu"   -> 150
      [] OTHER       -> 0

\* the scroll positions the host moves between
ScrollYs == {0, 50, 51, 300, 301}

\* scroll positions of the nav highlight: inside the hero section, inside
\* "about", inside "edu" and below the last section
NavYs == {0, 100, 300, 500}

\* scroll positions of the section views and of the progress bar: the top
\* of the page (the hero section alone in view) and further down ("about"
\* and "edu" in view)
ProYs == {0, 300}

\* widths of the window
Widths == {"narrow", "wide"}

\* scroll positions around the reveal boundary of the card and of section
\* "about"
BoundaryYs == {0, 50, 51, 100, 101}

\* timers: the throttle's reset and one class-adding timer per target
TimerIds == {"inThrottle", "group", "degree", "belt"}

VARIABLES
    version,          \* 1: script.js lines 1-881, 2: lines 883-1514
    present,          \* which optional control elements the document has
    readyState,       \* document.readyState when the script runs
    hasBody,          \* whether document.body exists when the script runs
    scriptError,      \* how the script's top level ended: "none", "caught" or "uncaught"
    phase,            \* "parsing" (script not run), "loading", "ready", "aborted"
    listeners,        \* the listeners registered so far
    stepsDone,        \* the statements of initializeApp's try that completed
    initError,        \* "none", "caught" (and logged) or "uncaught"
    scrollY,          \* window.scrollY = window.pageYOffset
    classList,        \* the class list of every element
    ticking,          \* script.js: let ticking
    lastScrollY,      \* script.js: let lastScrollY
    rafQueue,         \* callbacks requestAnimationFrame holds for the next frame
    inThrottle,       \* the flag of the throttle closure of the back-to-top listener
    timers,           \* pending setTimeout timers, a bag over TimerIds
    scrollsThisFrame, \* scroll events delivered since the last frame tick
    revealRuns,       \* executions of revealOnScroll by scroll events since the last frame tick
    headerRuns,       \* executions of updateHeader during the last frame tick
    hlToggles,        \* changes of 'section-highlight' on section "about" so far
    errors,           \* ErrorHandler: this.errors
    errorEvents,      \* error and unhandledrejection events delivered so far
    lastEvent,        \* the last error event delivered, as its listeners left it
    ariaExpanded,     \* navToggle's aria-expanded attribute, "unset" before it is set
    snap,             \* class lists of menu and icon before the first of a run of toggle clicks
    clicksInRow,      \* toggle clicks delivered since any other event, counted up to 2
    now,              \* the host's clock in milliseconds
    throttleDue,      \* the instant from which the throttle's pending timer may fire
    lastInvoke,       \* the instant the throttled handler last ran, -1 before it ran
    funcRuns,         \* parity of the number of runs of the throttled handler
    activeNavItem,    \* script.js: let activeNavItem, "null" or a nav link
    navPending,       \* callbacks updateActiveNavItem held for the next frame
    navHighlight,     \* the link and window width the highlight bar was laid out for
    firedLate,        \* a section timer has fired while its section was outside the band
    heroTitle,        \* the element '.hero__title--highlight': whether it exists, its textContent
    typeWriter,       \* the TypeWriter object and its pending timers
    loader,           \* the loader element of LoadingAnimation and its pending timers
    anims,            \* the smooth-scroll animations started so far
    tracked,          \* the sections whose dataset.tracked is set
    events,           \* AnalyticsTracker: this.events
    ioSeen,           \* what the IntersectionObserver last reported of each section
    barWidth,         \* style.width of the bar of ScrollProgress
    scrollHeight      \* document.documentElement.scrollHeight

\* the document as the script finds it; no step changes it
docVars == <<version, present, readyState, hasBody>>

\* the state of the error listeners
errVars == <<errors, errorEvents, lastEvent>>

\* the nav toggle's attribute and the record of the toggle clicks
menuVars == <<ariaExpanded, snap, clicksInRow>>

\* the clock and the record of the throttle's runs
timeVars == <<now, throttleDue, lastInvoke, funcRuns>>

\* the state of the nav highlight
navVars == <<activeNavItem, navPending, navHighlight>>

\* the typing effect
typeVars == <<heroTitle, typeWriter>>

\* the section views of AnalyticsTracker
trackVars == <<tracked, events, ioSeen>>

\* the progress bar and the height of the document
progressVars == <<barWidth, scrollHeight>>

\* the state of the objects initProfessionalFeatures creates
featVars == <<typeVars, loader, anims, trackVars, progressVars>>

\* the state of the script's own statements
baseVars == <<docVars, scriptError, phase, listeners, stepsDone, initError,
              scrollY, classList, ticking, lastScrollY, rafQueue, inThrottle, timers,
              scrollsThisFrame, revealRuns, headerRuns, hlToggles, errVars, menuVars,
              timeVars, navVars, firedLate>>

vars == <<baseVars, featVars>>

(***************************************************************************)
(* Geometry and the predicates of revealOnScroll.                          *)
(***************************************************************************)
\* element.getBoundingClientRect().top at scroll position y
Top(e, y) == OffsetTop(e) - y

\* elementTop < windowHeight - 100
\* (variant: <= instead of <)
ShouldRevealInclusive(t, h) == t <= h - RevealMargin
\* as written
ShouldReveal(t, h) == t < h - RevealMargin

\* sectionTop < windowHeight - 50 && sectionTop > -windowHeight/2
\* (variant: the band without its lower edge)
InBandNoLower(t, h) == t < h - HighlightMargin
\* as written
InBand(t, h) == t < h - HighlightMargin /\ 2 * t > -h

\* document.querySelectorAll('.reveal, .reveal-left, .reveal-right')
IsRevealElement(cl, e) ==
    e \in Content /\ cl[e] \cap {"reveal", "reveal-left", "reveal-right"} # {}

\* the reveal loop: add 'active' to every reveal element above the margin
\* (variant: with an else branch that removes the marker)
RevealKeepOff(cl, e, y) ==
    IF IsRevealElement(cl, e) /\ ShouldReveal(Top(e, y), InnerHeight)
    THEN cl[e] \cup {"active"}
    ELSE cl[e] \ {"active"}
\* as written
RevealOne(cl, e, y) ==
    IF IsRevealElement(cl, e) /\ ShouldReveal(Top(e, y), InnerHeight)
    THEN cl[e] \cup {"active"}
    ELSE cl[e]

RevealLoop(cl, y) == [e \in Elems |-> RevealOne(cl, e, y)]

\* the section loop of version 1: highlight a section inside the band,
\* strip the markers of a section outside of it
SectionOne(cl, s, y) ==
    IF InBand(Top(s, y), InnerHeight)
    THEN cl[s] \cup {"section-highlight", "active"}
               \cup (IF "education-career" \in cl[s] THEN {"section-glow"} ELSE {})
    ELSE cl[s] \ {"section-highlight", "active", "section-glow"}

\* sections.forEach
\* (variant: the loop over every content element instead of the sections)
SectionLoopAll(cl, y) ==
    [e \in Elems |-> IF e \in Content THEN SectionOne(cl, e, y) ELSE cl[e]]
\* as written
SectionLoop(cl, y) ==
    [e \in Elems |-> IF e \in Content /\ IsSection(e) THEN SectionOne(cl, e, y) ELSE cl[e]]

\* the timers the section loop starts: one per section group, per degree or
\* job card and for the belt card of every section inside the band
\* (variant: no timer for a target that carries 'active' already)
SectionTimersOnce(cl, y) ==
    {e \in Content :
        /\ Parent(e) # e
        /\ InBand(Top(Parent(e), y), InnerHeight)
        /\ "active" \notin cl[e]
        /\ cl[e] \cap {"section-group", "degree-card", "job-card", "martial-belt-card"} # {}}
\* as written
SectionTimers(cl, y) ==
    {e \in Content :
        /\ Parent(e) # e
        /\ InBand(Top(Parent(e), y), InnerHeight)
        /\ cl[e] \cap {"section-group", "degree-card", "job-card", "martial-belt-card"} # {}}

\* the class list after revealOnScroll, and the timers it starts
revealOnScroll(cl, y, v) == IF v = 1 THEN SectionLoop(RevealLoop(cl, y), y) ELSE RevealLoop(cl, y)

revealTimers(cl, y, v) == IF v = 1 THEN SectionTimers(cl, y) ELSE {}

\* initRevealAnimations: experience cards become reveal elements
initRevealAnimations(cl) ==
    [e \in Elems |-> IF "experience__card" \in cl[e] THEN cl[e] \cup {"reveal"} ELSE cl[e]]

(***************************************************************************)
(* The header effect and its requestAnimationFrame throttle.               *)
(***************************************************************************)
\* currentScrollY > 50
\* (variant: >= instead of >)
HeaderScrolledOff(y) == y >= HeaderThreshold
\* as written
HeaderScrolled(y) == y > HeaderThreshold

\* updateHeader: the header's class list at scroll position y
updateHeader(cl, y) ==
    IF present["header"]
    THEN [cl EXCEPT !["header"] =
            IF HeaderScrolled(y) THEN @ \cup {"scrolled"} ELSE @ \ {"scrolled"}]
    ELSE cl

\* onScroll: schedule updateHeader unless one is already scheduled
\* (variants: without the test of ticking; without setting ticking)
onScrollNoGuard(tk, q) == [ticking |-> TRUE, raf |-> Append(q, "updateHeader")]
onScrollNoFlag(tk, q) ==
    IF ~tk THEN [ticking |-> FALSE, raf |-> Append(q, "updateHeader")]
    ELSE [ticking |-> tk, raf |-> q]
\* as written
onScroll(tk, q) ==
    IF ~tk THEN [ticking |-> TRUE, raf |-> Append(q, "updateHeader")]
    ELSE [ticking |-> tk, raf |-> q]

\* number of pending updateHeader callbacks
PendingHeader(q) == Len(SelectSeq(q, LAMBDA c : c = "updateHeader"))

(***************************************************************************)
(* The back-to-top listener behind throttle(handler, 100).                 *)
(***************************************************************************)
\* window.pageYOffset > 300
BackToTopShown(y) == y > BackToTopThreshold

\* the handler: show or hide the button, nothing without a button
backToTopHandler(cl, y) ==
    IF present["backToTop"]
    THEN [cl EXCEPT !["backToTop"] =
            IF BackToTopShown(y) THEN @ \cup {"show"} ELSE @ \ {"show"}]
    ELSE cl

\* the function throttle returns: run the handler and open the window when
\* no window is open, drop the call otherwise
throttle(cl, y, it) ==
    IF ~it THEN [classList |-> backToTopHandler(cl, y), inThrottle |-> TRUE, timer |-> {"inThrottle"}]
    ELSE [classList |-> cl, inThrottle |-> it, timer |-> {}]

(***************************************************************************)
(* Timers.                                                                 *)
(***************************************************************************)
BagAdd(b, S) == [t \in TimerIds |-> b[t] + (IF t \in S THEN 1 ELSE 0)]

BagSize(b) == b["inThrottle"] + b["group"] + b["degree"] + b["belt"]

\* the classes the timer of target e adds when it fires
TimerClasses(e) ==
    CASE e = "group"  -> {"active"}
      [] e = "degree" -> {"card-highlight", "active"}
      [] e = "belt"   -> {"section-pulse", "active"}
      [] OTHER        -> {}

(***************************************************************************)
(* The nav highlight of version 1.                                         *)
(***************************************************************************)
\* the id of the first section that holds position y + 100, "" when none does
currentSection(y) ==
    LET pos  == y + NavOffset
        hits == {i \in 1..Len(NavSections) :
                    /\ pos >= OffsetTop(NavSections[i])
                    /\ pos < OffsetTop(NavSections[i]) + OffsetHeight(NavSections[i])}
    IN  IF hits = {} THEN ""
        ELSE SectionId(NavSections[CHOOSE i \in hits : \A j \in hits : i <= j])

\* document.querySelector('.nav__link[href="#id"]'), "null" without a match
LinkFor(id) ==
    LET hits == {i \in 1..Len(NavLinks) : LinkTarget(NavLinks[i]) = id}
    IN  IF hits = {} THEN "null"
        ELSE NavLinks[CHOOSE i \in hits : \A j \in hits : i <= j]

\* updateActiveNavItem at scroll position y
\* (variant: without taking 'active' from the previous item)
updateActiveNavItemKeepOld(cl, item, y) ==
    LET cs  == currentSection(y)
        new == IF cs = "" THEN "null" ELSE LinkFor(cs)
    IN  IF new # "null" /\ new # item
        THEN [classList |-> [cl EXCEPT ![new] = @ \cup {"active"}],
              activeNavItem |-> new, moved |-> TRUE]
        ELSE [classList |-> cl, activeNavItem |-> item, moved |-> FALSE]
\* as written
updateActiveNavItem(cl, item, y) ==
    LET cs  == currentSection(y)
        new == IF cs = "" THEN "null" ELSE LinkFor(cs)
    IN  IF new # "null" /\ new # item
        THEN [classList |-> [e \in Elems |->
                                IF e = new THEN cl[e] \cup {"active"}
                                ELSE IF e = item THEN cl[e] \ {"active"}
                                ELSE cl[e]],
              activeNavItem |-> new, moved |-> TRUE]
        ELSE [classList |-> cl, activeNavItem |-> item, moved |-> FALSE]

\* whether the script starts the nav highlight: version 1 with a nav menu
HasNavHighlight == version = 1 /\ present["navMenu"]

\* initNavHighlight: the first nav link becomes the active item
initNavHighlight(cl) ==
    IF HasNavHighlight THEN [cl EXCEPT ![NavLinks[1]] = @ \cup {"active"}] ELSE cl

NavListeners == IF HasNavHighlight THEN {"navScroll", "navResize"} ELSE {}

(***************************************************************************)
(* initializeApp: the statements of its try block, in order.               *)
(***************************************************************************)
AppSteps(v) ==
    <<"initRevealAnimations", "smoothScroll", "lazyLoadImages", "enhanceAccessibility",
      "handleError", "measurePerformance", "addScrollListener", "revealOnScroll">>
    \o (IF v = 1 THEN <<"highlightActiveSection">> ELSE <<>>)

\* a statement that throws: enhanceAccessibility dereferences navToggle
\* (navToggle.setAttribute) and version 1 calls highlightActiveSection,
\* which the script never defines
Throws(step) ==
    \/ step = "enhanceAccessibility" /\ ~present["navToggle"]
    \/ step = "highlightActiveSection"

\* initProfessionalFeatures, called at the script's top level: the
\* constructors it runs, in order
ProSteps(v) ==
    (IF v = 1 THEN <<"TypeWriter", "ScrollProgress", "SmoothScroll">> ELSE <<>>)
    \o <<"PerformanceObserver", "KeyboardNavigation", "LoadingAnimation",
         "AnalyticsTracker", "ErrorHandler">>

\* a constructor that throws: createProgressBar and createLoader call
\* document.body.appendChild, a TypeError while the document has no body
ProThrows(step) == step \in {"ScrollProgress", "LoadingAnimation"} /\ ~hasBody

\* whether a statement lies inside the try of initializeApp
\* (variants: enhanceAccessibility called outside the try; the whole script
\* inside the try)
InTryButA11y(step) ==
    /\ step \in {AppSteps(1)[i] : i \in 1..Len(AppSteps(1))}
    /\ step # "enhanceAccessibility"
InTryWholeScript(step) == TRUE
\* as written
InTry(step) == step \in {AppSteps(1)[i] : i \in 1..Len(AppSteps(1))}

\* index of the first constructor that throws, 0 when none does
FirstProThrow(v) ==
    LET bad == {i \in 1..Len(ProSteps(v)) : ProThrows(ProSteps(v)[i])}
    IN  IF bad = {} THEN 0 ELSE CHOOSE i \in bad : \A j \in bad : i <= j

\* the constructors that ran to completion
ProCompleted(v) ==
    LET ft == FirstProThrow(v)
        n  == IF ft = 0 THEN Len(ProSteps(v)) ELSE ft - 1
    IN  {ProSteps(v)[i] : i \in 1..n}

\* how the script's top level ends; an exception no try catches ends the
\* script at the statement that threw
ScriptOutcome(v) ==
    LET ft == FirstProThrow(v)
    IN  IF ft = 0 THEN "none"
        ELSE IF InTry(ProSteps(v)[ft]) THEN "caught" ELSE "uncaught"

\* the listeners the constructors register
ProListeners(v) ==
    LET done == ProCompleted(v)
    IN  (IF "KeyboardNavigation" \in done THEN {"kbdKeydown"} ELSE {})
        \cup (IF "ErrorHandler" \in done THEN {"ehError", "ehRejection"} ELSE {})

\* index of the first statement that throws, 0 when none does
FirstThrow(v) ==
    LET bad == {i \in 1..Len(AppSteps(v)) : Throws(AppSteps(v)[i])}
    IN  IF bad = {} THEN 0 ELSE CHOOSE i \in bad : \A j \in bad : i <= j

\* the statements that ran to completion
Completed(v) ==
    LET ft == FirstThrow(v)
        n  == IF ft = 0 THEN Len(AppSteps(v)) ELSE ft - 1
    IN  {AppSteps(v)[i] : i \in 1..n}

\* how initializeApp ends
InitOutcome(v) ==
    LET ft == FirstThrow(v)
    IN  IF ft = 0 THEN "none"
        ELSE IF InTry(AppSteps(v)[ft]) THEN "caught" ELSE "uncaught"

\* the listeners initializeApp registers; enhanceAccessibility registers its
\* keydown listener before it touches navToggle
\* (variant: without the scroll listener of initializeApp)
AppListenersNoScroll(v) ==
    LET done == Completed(v)
    IN  {"a11yKeydown"}
        \cup (IF "enhanceAccessibility" \in done THEN {"a11yClick"} ELSE {})
        \cup (IF "handleError" \in done THEN {"windowError", "tiktokError"} ELSE {})
        \cup (IF "measurePerformance" \in done THEN {"perfLoad"} ELSE {})
\* as written
AppListeners(v) ==
    LET done == Completed(v)
    IN  {"a11yKeydown"}
        \cup (IF "enhanceAccessibility" \in done THEN {"a11yClick"} ELSE {})
        \cup (IF "handleError" \in done THEN {"windowError", "tiktokError"} ELSE {})
        \cup (IF "measurePerformance" \in done THEN {"perfLoad"} ELSE {})
        \cup (IF "addScrollListener" \in done THEN {"revealScroll"} ELSE {})

\* the click listeners of the mobile menu: on the nav toggle (version 1
\* needs the toggle only, initMobileMenu of version 2 toggle and menu) and on
\* the nav links; version 2 registers them on DOMContentLoaded, ahead of
\* initializeApp, while the document is loading
MenuListeners(v) ==
    (IF present["navToggle"] /\ (v = 1 \/ present["navMenu"]) THEN {"toggleClick"} ELSE {})
    \cup {"linkClick"}

\* initializeApp, entered with class lists cl and registered listeners ls
initializeApp(cl, ls) ==
    LET done == Completed(version)
        cl1  == initRevealAnimations(cl)
        ran  == "revealOnScroll" \in done
    IN  /\ stepsDone' = done
        /\ initError' = InitOutcome(version)
        /\ listeners' = ls \cup AppListeners(version)
        /\ classList' = IF ran THEN revealOnScroll(cl1, scrollY, version) ELSE cl1
        /\ timers' = IF ran THEN BagAdd(timers, revealTimers(cl1, scrollY, version)) ELSE timers
        /\ ariaExpanded' = IF "enhanceAccessibility" \in done THEN "false" ELSE ariaExpanded
        /\ phase' = "ready"

(***************************************************************************)
(* Error events.  The payload of an event (event.error, event.reason) is   *)
(* an Error object, a primitive string, null or undefined; the filename of *)
(* an error event is a string, here a sequence of pieces, or is missing    *)
(* (an event that is no ErrorEvent).                                       *)
(***************************************************************************)
Payloads == {"Error", "string", "null", "undefined"}

\* the string 'tiktok.com/embed.js'
TikTokEmbed == <<"tiktok.com", "/", "embed.js">>

NoFilename == [has |-> FALSE, name |-> <<>>]

Filenames ==
    {NoFilename}
    \cup {[has |-> TRUE, name |-> n] :
            n \in {<<>>,
                   <<"https://", "www.", "tiktok.com", "/", "embed.js">>,
                   <<"https://", "www.", "tiktok.com", "/", "embed.js", "?v=2">>,
                   <<"tiktok.com", "/", "embed.js">>,
                   <<"https://", "www.", "tiktok.com", "/", "player.js">>,
                   <<"https://", "cdn.example", "/", "embed.js">>,
                   <<"https://", "quinc.example", "/", "script.js">>}}

\* String.prototype.includes
\* (variant: equality of the two strings)
IncludesWhole(str, sub) == str = sub
\* as written
Includes(str, sub) ==
    \E i \in 1..(Len(str) - Len(sub) + 1) : SubSeq(str, i, i + Len(sub) - 1) = sub

\* the capturing error listener of handleError: whether it calls
\* preventDefault; e.filename && e.filename.includes('tiktok.com/embed.js')
tiktokListener(f) == f.has /\ f.name # <<>> /\ Includes(f.name, TikTokEmbed)

\* ErrorHandler.handleError reads error.message: a TypeError for null and
\* undefined
handleErrorThrows(payload) == payload \in {"null", "undefined"}

\* error.message of a payload that has properties
MessageOf(payload) == IF payload = "Error" THEN "message" ELSE "undefined"

\* ErrorHandler.handleError: this.errors after the call
handleError(errs, payload, context) ==
    IF handleErrorThrows(payload) THEN errs
    ELSE Append(errs, [message |-> MessageOf(payload), context |-> context])

(***************************************************************************)
(* TypeWriter (version 1): the typing effect of the hero title.  A text is *)
(* a sequence of characters.                                               *)
(***************************************************************************)
\* the characters of a title and the titles the element may hold
Chars == {"a", "b"}

RECURSIVE TextsOfLen(_)
TextsOfLen(n) ==
    IF n = 0 THEN {<<>>}
    ELSE {Append(t, c) : t \in TextsOfLen(n - 1), c \in Chars}

Texts == UNION {TextsOfLen(n) : n \in 0..MaxTextLen}

\* String.prototype.substring(a, b): an argument below 0 counts as 0, one
\* above the length as the length, and the smaller of the two comes first
substring(str, a, b) ==
    LET clamp(i) == IF i < 0 THEN 0 ELSE IF i > Len(str) THEN Len(str) ELSE i
        lo == IF clamp(a) <= clamp(b) THEN clamp(a) ELSE clamp(b)
        hi == IF clamp(a) <= clamp(b) THEN clamp(b) ELSE clamp(a)
    IN  SubSeq(str, lo + 1, hi)

\* the TypeWriter before its constructor has run
NoTypeWriter ==
    [active |-> FALSE, text |-> <<>>, index |-> 0, isDeleting |-> FALSE, pending |-> <<>>]

\* type(): !this.isDeleting && current === this.text
\* (variant: the whole text is never recognised)
AtFullTextNever(tw, current) == FALSE
\* as written
AtFullText(tw, current) == ~tw.isDeleting /\ current = tw.text

\* TypeWriter.type: the text it displays, and the object with the timer it
\* starts ("pause": 2000 ms, then isDeleting = true; "restart": 500 ms;
\* "step": this.speed)
type(tw) ==
    LET current == IF tw.isDeleting
                   THEN substring(tw.text, 0, tw.index - 1)
                   ELSE substring(tw.text, 0, tw.index + 1)
    IN  [textContent |-> current,
         tw |-> IF AtFullText(tw, current)
                THEN [tw EXCEPT !.pending = Append(@, "pause")]
                ELSE IF tw.isDeleting /\ current = <<>>
                THEN [tw EXCEPT !.isDeleting = FALSE, !.index = 0,
                                !.pending = Append(@, "restart")]
                ELSE [tw EXCEPT !.index = IF tw.isDeleting THEN @ - 1 ELSE @ + 1,
                                !.pending = Append(@, "step")]]

\* new TypeWriter(heroTitle, heroTitle.textContent, 100): the constructor
\* calls init(), which calls type()
newTypeWriter(text) ==
    type([active |-> TRUE, text |-> text, index |-> 0, isDeleting |-> FALSE,
          pending |-> <<>>])

\* a sequence without its i-th element
RemoveAt(seq, i) == SubSeq(seq, 1, i - 1) \o SubSeq(seq, i + 1, Len(seq))

\* the callback of the i-th pending timer of the TypeWriter
typeCallback(tw, i) ==
    LET rest == [tw EXCEPT !.pending = RemoveAt(@, i)]
    IN  IF tw.pending[i] = "pause"
        THEN type([rest EXCEPT !.isDeleting = TRUE])
        ELSE type(rest)

(***************************************************************************)
(* LoadingAnimation: the loader element, hidden 1000 ms after the load     *)
(* event and removed 500 ms after that.  A pending timer is a record of    *)
(* its callback and of the instant from which it may fire.                 *)
(***************************************************************************)
\* init: setTimeout(() => this.hide(), 1000)
HideDelay == 1000
\* hide: setTimeout(() => { this.loader.remove(); }, 500)
RemoveDelay == 500

\* before the constructor has run: no loader, no load event yet
NoLoader ==
    [state |-> "none", hide |-> FALSE, pending |-> {}, loadAt |-> -1, hideAt |-> -1,
     removedAt |-> -1]

\* createLoader: the element is appended to document.body
createLoader == [NoLoader EXCEPT !.state = "attached"]

\* the load listener of LoadingAnimation.init at instant t
onLoad(l, t) ==
    [l EXCEPT !.pending = @ \cup {[kind |-> "hide", due |-> t + HideDelay]}, !.loadAt = t]

\* LoadingAnimation.hide at instant t
\* (variant: the loader is removed at once)
hideRemovesAtOnce(l, t) == [l EXCEPT !.state = "removed", !.removedAt = t]
\* as written
hide(l, t) ==
    [l EXCEPT !.hide = TRUE, !.hideAt = t,
              !.pending = @ \cup {[kind |-> "remove", due |-> t + RemoveDelay]}]

\* this.loader.remove() at instant t
removeLoader(l, t) == [l EXCEPT !.state = "removed", !.removedAt = t]

(***************************************************************************)
(* Smooth scrolling: SmoothScroll.scrollTo (version 1) and scrollToElement *)
(* of smoothScroll.  Time is counted in units of 100 ms.  An animation     *)
(* holds currentTime - startTime of its last callback as `elapsed`, -1     *)
(* while startTime is null.  Math.min(timeElapsed / duration, 1) and the   *)
(* eased progress are fractions; a progress is held as its numerator over  *)
(* the duration, an eased value and a written position as numerators over  *)
(* duration^3.                                                             *)
(***************************************************************************)
\* header.offsetHeight
HeaderHeight == 60

\* duration = 800 of SmoothScroll.scrollTo and of scrollToElement in version
\* 1, duration = 300 of scrollToElement in version 2
Duration(kind, v) == IF kind = "scrollToElement" /\ v = 2 THEN 3 ELSE 8

\* Math.min(timeElapsed / duration, 1)
\* (variant: timeElapsed / duration)
progressUnbounded(elapsed, d) == elapsed
\* as written
progress(elapsed, d) == IF elapsed < d THEN elapsed ELSE d

\* t < 0.5 ? 4 * t * t * t : 1 - Math.pow(-2 * t + 2, 3) / 2, for t = p / d
easeInOutCubic(p, d) ==
    IF 2 * p < d THEN 4 * p * p * p
    ELSE d * d * d - 4 * (d - p) * (d - p) * (d - p)

\* the section a link's href names, "null" when the document has none
TargetOf(l) ==
    LET found == {s \in Sections : SectionId(s) = LinkTarget(l)}
    IN  IF found = {} THEN "null" ELSE CHOOSE s \in found : TRUE

\* scrollTo / scrollToElement up to the first requestAnimationFrame: from
\* position y to position target
newAnimation(kind, y, target) ==
    [kind |-> kind, start |-> y, distance |-> target - y,
     duration |-> Duration(kind, version), elapsed |-> -1,
     written |-> 0, frames |-> 0, requested |-> TRUE]

\* the animations a click on link l starts at position y: the listener of
\* SmoothScroll.init computes target.offsetTop - header.offsetHeight - 20 (a
\* TypeError without a header), the listener of smoothScroll the target's
\* top in the document less the header height the script read when it ran
smoothClick(l, y, done) ==
    LET s == TargetOf(l)
    IN  (IF "SmoothScroll" \in ProCompleted(version) /\ s # "null" /\ present["header"]
         THEN <<newAnimation("scrollTo", y, OffsetTop(s) - HeaderHeight - 20)>>
         ELSE <<>>)
        \o (IF "smoothScroll" \in done /\ s # "null"
            THEN <<newAnimation("scrollToElement", y,
                                (Top(s, y) + y)
                                - (IF present["header"] THEN HeaderHeight ELSE 0))>>
            ELSE <<>>)

\* the callback `animation` of animation a in a frame whose timestamp is
\* dt after that of the frame before
animation(a, dt) ==
    LET timeElapsed == IF a.elapsed = -1 THEN 0 ELSE a.elapsed + dt
        d           == a.duration
        ease        == easeInOutCubic(progress(timeElapsed, d), d)
    IN  [a EXCEPT !.elapsed = timeElapsed,
                  !.written = a.start * d * d * d + a.distance * ease,
                  !.frames = @ + 1,
                  !.requested = timeElapsed < d]

\* window.scrollTo(0, position): the scroll position the host takes, within
\* the scrollable range and in whole pixels
hostScroll(a, h) ==
    LET y   == a.written \div (a.duration * a.duration * a.duration)
        max == IF h > InnerHeight THEN h - InnerHeight ELSE 0
    IN  IF y < 0 THEN 0 ELSE IF y > max THEN max ELSE y

(***************************************************************************)
(* AnalyticsTracker: the section views.  An event is held without its      *)
(* timestamp, url and user agent.                                          *)
(***************************************************************************)
\* whether section s intersects the viewport at scroll position y
Intersects(s, y) ==
    /\ OffsetTop(s) < y + InnerHeight
    /\ OffsetTop(s) + OffsetHeight(s) > y

\* !entry.target.dataset.tracked
\* (variant: the mark is not looked at)
UntrackedAlways(s, tr) == TRUE
\* as written
Untracked(s, tr) == s \notin tr

RECURSIVE observerCallback(_, _, _, _, _)
\* the callback of the IntersectionObserver for the entries of the sections
\* in `changed`, from the i-th section of the document on, at scroll
\* position y: the tracked sections and this.events after it
observerCallback(i, changed, y, tr, evs) ==
    IF i > Len(NavSections) THEN [tracked |-> tr, events |-> evs]
    ELSE LET s == NavSections[i]
         IN  IF s \in changed /\ Intersects(s, y) /\ Untracked(s, tr)
             THEN observerCallback(i + 1, changed, y, tr \cup {s},
                                   Append(evs, [category |-> "Section", action |-> "View",
                                                label |-> SectionId(s)]))
             ELSE observerCallback(i + 1, changed, y, tr, evs)

(***************************************************************************)
(* ScrollProgress: the width of the bar.  A percentage is held as a        *)
(* fraction num / den.                                                     *)
(***************************************************************************)
\* updateProgress: style.width of the bar after the call.  With a document
\* no taller than the window docHeight is 0, scrollPercent is NaN (0 / 0)
\* or Infinity, and the assignment of 'NaN%' is not a valid width and
\* leaves style.width as it was.
updateProgress(w, scrollTop, h) ==
    LET docHeight == h - InnerHeight
    IN  IF docHeight = 0 THEN w
        ELSE [kind |-> "percent", num |-> scrollTop * 100, den |-> docHeight]

(***************************************************************************)
(* The objects of initProfessionalFeatures before the script has run.      *)
(***************************************************************************)
\* style.width of the progress bar before it is set
NoWidth == [kind |-> "unset", num |-> 0, den |-> 1]

\* document.documentElement.scrollHeight of the page
PageHeight == 700

\* no hero title
InitNoTitle ==
    /\ heroTitle = [present |-> FALSE, text |-> <<>>]
    /\ typeWriter = NoTypeWriter

InitLoader == loader = NoLoader

InitAnims == anims = <<>>

InitTrack ==
    /\ tracked = {}
    /\ events = <<>>
    /\ ioSeen = [s \in Sections |-> "none"]

InitProgress ==
    /\ barWidth = NoWidth
    /\ scrollHeight = PageHeight

InitFeatures == InitNoTitle /\ InitLoader /\ InitAnims /\ InitTrack /\ InitProgress

(***************************************************************************)
(* Initial states: the script has not run yet.                             *)
(***************************************************************************)
InitState ==
    /\ version \in {1, 2}
    /\ readyState \in {"loading", "interactive"}
    /\ scriptError = "none"
    /\ phase = "parsing"
    /\ listeners = {}
    /\ stepsDone = {}
    /\ initError = "none"
    /\ scrollY = 0
    /\ ticking = FALSE
    /\ lastScrollY = 0
    /\ rafQueue = <<>>
    /\ inThrottle = FALSE
    /\ timers = [t \in TimerIds |-> 0]
    /\ scrollsThisFrame = 0
    /\ revealRuns = 0
    /\ headerRuns = 0
    /\ hlToggles = 0
    /\ errors = <<>>
    /\ errorEvents = 0
    /\ lastEvent = [filename |-> NoFilename, heard |-> FALSE, defaultPrevented |-> FALSE]
    /\ ariaExpanded = "unset"
    /\ snap = [menu |-> {}, icon |-> {}]
    /\ clicksInRow = 0
    /\ now = 0
    /\ throttleDue = 0
    /\ lastInvoke = -1
    /\ funcRuns = 0
    /\ activeNavItem = "null"
    /\ navPending = 0
    /\ navHighlight = [item |-> "null", width |-> "wide"]
    /\ firedLate = FALSE

\* the class lists are those of the markup
InitPage == InitState /\ InitFeatures /\ classList = [e \in Elems |-> Markup(e)]

\* any document: each optional control element is there or missing; a
\* script that runs in the head of a loading document finds no body and no
\* element
InitBoot ==
    /\ InitPage
    /\ present \in [Optional -> BOOLEAN]
    /\ hasBody \in BOOLEAN
    /\ ~hasBody => readyState = "loading" /\ \A o \in Optional : ~present[o]

\* a document with a nav menu; toggle, header and back-to-top button optional
Init ==
    /\ InitPage
    /\ present \in {p \in [Optional -> BOOLEAN] : p["navMenu"]}
    /\ hasBody = TRUE

\* a document with every control element
InitFull == Init /\ \A o \in Optional : present[o]

\* a document with toggle and menu whose menu and icon carry any of their
\* classes
InitAnyMenu ==
    /\ InitState
    /\ InitFeatures
    /\ present \in {p \in [Optional -> BOOLEAN] : p["navMenu"] /\ p["navToggle"]}
    /\ hasBody = TRUE
    /\ \E m \in SUBSET {"active"}, i \in SUBSET {"fa-bars", "fa-times"} :
          classList = [e \in Elems |->
                          CASE e = "navMenu" -> {"nav__menu"} \cup m
                            [] e = "icon"    -> {"fas"} \cup i
                            [] OTHER         -> Markup(e)]

\* the count of marker changes of section "about" after a step
Toggled(old, new) ==
    IF ("section-highlight" \in old["about"]) # ("section-highlight" \in new["about"])
       /\ hlToggles < MaxToggles
    THEN hlToggles + 1
    ELSE hlToggles

(***************************************************************************)
(* The script's top level: initProfessionalFeatures, the first call of     *)
(* updateHeader, the scroll listeners, and init(), which runs              *)
(* initializeApp at once unless the document is still loading.  An         *)
(* exception thrown at the top level ends the script there.                *)
(***************************************************************************)
RunScriptCore ==
    /\ phase = "parsing"
    /\ scriptError' = ScriptOutcome(version)
    /\ IF ScriptOutcome(version) # "none"
       THEN /\ phase' = "aborted"
            /\ listeners' = listeners \cup ProListeners(version)
            /\ UNCHANGED <<ticking, lastScrollY, classList, stepsDone, initError, timers,
                           hlToggles, ariaExpanded, activeNavItem, navHighlight>>
       ELSE /\ ticking' = FALSE
            /\ lastScrollY' = scrollY
            /\ IF readyState = "loading"
               THEN /\ classList' = initNavHighlight(updateHeader(classList, scrollY))
                    /\ listeners' = listeners \cup ProListeners(version)
                                       \cup (IF version = 1 THEN MenuListeners(version) ELSE {})
                                       \cup {"onScroll", "backToTopScroll"} \cup NavListeners
                                       \cup {"DOMContentLoaded"}
                    /\ phase' = "loading"
                    /\ UNCHANGED <<stepsDone, initError, timers, ariaExpanded>>
               ELSE initializeApp(initNavHighlight(updateHeader(classList, scrollY)),
                                  listeners \cup ProListeners(version)
                                      \cup MenuListeners(version)
                                      \cup {"onScroll", "backToTopScroll"} \cup NavListeners)
            /\ hlToggles' = Toggled(classList, classList')
            /\ activeNavItem' = IF HasNavHighlight THEN NavLinks[1] ELSE activeNavItem
            /\ navHighlight' = IF HasNavHighlight
                               THEN [item |-> NavLinks[1], width |-> navHighlight.width]
                               ELSE navHighlight
    /\ clicksInRow' = 0
    /\ UNCHANGED <<docVars, errVars, timeVars, snap, navPending, firedLate, scrollY, rafQueue,
                   inThrottle,
                   scrollsThisFrame, revealRuns, headerRuns>>

\* the script's top level, the objects of initProfessionalFeatures left aside
RunScript == RunScriptCore /\ UNCHANGED featVars

\* the DOMContentLoaded listener of init(): initializeApp
DOMContentLoaded ==
    /\ phase = "loading"
    /\ initializeApp(classList,
                     listeners \cup (IF version = 2 THEN MenuListeners(version) ELSE {}))
    /\ hlToggles' = Toggled(classList, classList')
    /\ clicksInRow' = 0
    /\ UNCHANGED <<featVars, docVars, errVars, timeVars, navVars, firedLate, snap, scriptError, scrollY,
                   ticking, lastScrollY, rafQueue,
                   inThrottle, scrollsThisFrame, revealRuns, headerRuns>>

(***************************************************************************)
(* A scroll event: the host moves the page to position y and runs the      *)
(* scroll listeners in registration order: onScroll, the throttled         *)
(* back-to-top listener, and the listener initializeApp registered, which  *)
(* calls revealOnScroll.  (In version 1 that listener then calls the       *)
(* undefined highlightActiveSection and ends with a ReferenceError, after  *)
(* revealOnScroll has returned.)                                           *)
(***************************************************************************)
ScrollCore(y) ==
    /\ phase \in {"loading", "ready"}
    /\ y # scrollY
    /\ scrollsThisFrame < MaxScrollsPerFrame
    /\ LET hs == onScroll(ticking, rafQueue)
           bt == throttle(classList, y, inThrottle)
           rv == "revealScroll" \in listeners
           cl == IF rv THEN revealOnScroll(bt.classList, y, version) ELSE bt.classList
           nt == bt.timer \cup (IF rv THEN revealTimers(bt.classList, y, version) ELSE {})
       IN  /\ BagSize(BagAdd(timers, nt)) <= MaxTimers
           /\ scrollY' = y
           /\ ticking' = hs.ticking
           /\ rafQueue' = hs.raf
           /\ inThrottle' = bt.inThrottle
           /\ classList' = cl
           /\ timers' = BagAdd(timers, nt)
           /\ revealRuns' = IF rv THEN revealRuns + 1 ELSE revealRuns
           /\ hlToggles' = Toggled(classList, cl)
    /\ scrollsThisFrame' = scrollsThisFrame + 1
    /\ navPending' = IF "navScroll" \in listeners THEN navPending + 1 ELSE navPending
    /\ UNCHANGED <<docVars, errVars, menuVars, scriptError, phase, listeners, stepsDone, initError,
                   lastScrollY, headerRuns, activeNavItem, navHighlight, firedLate>>

\* a scroll event, the clock left aside
ScrollEvent(y) == ScrollCore(y) /\ UNCHANGED <<timeVars, featVars>>

\* setTimeout(() => inThrottle = false, limit) called at instant t: the
\* instant from which the timer may fire
\* (variant: a timer without delay)
ThrottleDeadlineNow(t) == t
\* as written
ThrottleDeadline(t) == t + ThrottleLimit

\* a scroll event at the instant `now`: the throttled handler runs when no
\* window is open, and its timer is due limit milliseconds later
TimedScrollEvent(y) ==
    /\ ScrollCore(y)
    /\ IF ~inThrottle
       THEN /\ lastInvoke' = now
            /\ throttleDue' = ThrottleDeadline(now)
            /\ funcRuns' = 1 - funcRuns
       ELSE UNCHANGED <<lastInvoke, throttleDue, funcRuns>>
    /\ UNCHANGED <<now, featVars>>

\* the clock advances
Tick ==
    /\ now + TickStep <= MaxTime
    /\ now' = now + TickStep
    /\ UNCHANGED <<featVars, docVars, errVars, menuVars, scriptError, phase, listeners, stepsDone,
                   initError, scrollY, classList, ticking, lastScrollY, rafQueue, inThrottle,
                   timers, scrollsThisFrame, revealRuns, headerRuns, hlToggles,
                   throttleDue, lastInvoke, funcRuns, navVars, firedLate>>

(***************************************************************************)
(* A frame tick: the host runs the callbacks requestAnimationFrame holds.  *)
(* updateHeader reads window.scrollY when it runs, writes the header's     *)
(* class, lastScrollY, and clears ticking.  The callbacks of the nav       *)
(* highlight, one per scroll event, touch other elements than updateHeader *)
(* does, so the two kinds are held apart and their order is left open.     *)
(***************************************************************************)
RECURSIVE RunNav(_, _, _, _, _)
\* n callbacks updateActiveNavItem in a row at scroll position y
RunNav(n, cl, item, hl, y) ==
    IF n = 0 THEN [classList |-> cl, activeNavItem |-> item, navHighlight |-> hl]
    ELSE LET r == updateActiveNavItem(cl, item, y)
         IN  RunNav(n - 1, r.classList, r.activeNavItem,
                    IF r.moved THEN [item |-> r.activeNavItem, width |-> hl.width] ELSE hl, y)

FrameTick ==
    /\ phase \in {"loading", "ready"}
    /\ LET n   == PendingHeader(rafQueue)
           cl  == IF n > 0 THEN updateHeader(classList, scrollY) ELSE classList
           nav == RunNav(navPending, cl, activeNavItem, navHighlight, scrollY)
       IN  /\ headerRuns' = n
           /\ IF n > 0
              THEN /\ lastScrollY' = scrollY
                   /\ ticking' = FALSE
              ELSE UNCHANGED <<lastScrollY, ticking>>
           /\ classList' = nav.classList
           /\ activeNavItem' = nav.activeNavItem
           /\ navHighlight' = nav.navHighlight
    /\ navPending' = 0
    /\ rafQueue' = <<>>
    /\ scrollsThisFrame' = 0
    /\ revealRuns' = 0
    /\ UNCHANGED <<featVars, docVars, errVars, menuVars, timeVars, firedLate, scriptError, phase,
                   listeners, stepsDone, initError, scrollY, inThrottle, timers, hlToggles>>

(***************************************************************************)
(* A timer fires: the throttle's timer closes the window; a timer of the   *)
(* section loop adds its classes to its target.                            *)
(***************************************************************************)
TimerCore(t) ==
    /\ timers[t] > 0
    /\ timers' = [timers EXCEPT ![t] = @ - 1]
    /\ IF t = "inThrottle"
       THEN /\ inThrottle' = FALSE
            /\ UNCHANGED classList
       ELSE /\ classList' = [classList EXCEPT ![t] = @ \cup TimerClasses(t)]
            /\ UNCHANGED inThrottle
    /\ UNCHANGED <<featVars, docVars, errVars, menuVars, scriptError, phase, listeners, stepsDone, initError,
                   scrollY, ticking, lastScrollY, rafQueue, scrollsThisFrame, revealRuns,
                   headerRuns, hlToggles, navVars>>

\* a timer fires, the clock left aside
TimerFire(t) == TimerCore(t) /\ UNCHANGED <<timeVars, firedLate>>

\* a timer fires; a timer of the section loop that fires while its section
\* lacks 'section-highlight' is recorded
ObservedTimerFire(t) ==
    /\ TimerCore(t)
    /\ firedLate' = (firedLate \/ (t # "inThrottle"
                                     /\ "section-highlight" \notin classList[Parent(t)]))
    /\ UNCHANGED timeVars

\* a timer fires at the instant `now`; the throttle's timer not before it is due
TimedTimerFire(t) ==
    /\ t = "inThrottle" => now >= throttleDue
    /\ TimerCore(t)
    /\ UNCHANGED <<timeVars, firedLate>>

(***************************************************************************)
(* The host delivers an error event to window (an uncaught exception, or a *)
(* script that failed): the listener of ErrorHandler records event.error,  *)
(* the capturing listener of handleError looks at event.filename.  An      *)
(* exception a listener throws while an error event is dispatched is not   *)
(* reported as another error event.                                        *)
(***************************************************************************)
ErrorEvent(payload, f) ==
    /\ phase \in {"loading", "ready"}
    /\ errorEvents < MaxErrorEvents
    /\ errorEvents' = errorEvents + 1
    /\ errors' = IF "ehError" \in listeners
                 THEN handleError(errors, payload, "Global Error")
                 ELSE errors
    /\ lastEvent' = [filename |-> f,
                     heard |-> "tiktokError" \in listeners,
                     defaultPrevented |-> "tiktokError" \in listeners /\ tiktokListener(f)]
    /\ UNCHANGED <<featVars, docVars, menuVars, timeVars, navVars, firedLate, scriptError, phase, listeners, stepsDone, initError,
                   scrollY, classList, ticking, lastScrollY, rafQueue, inThrottle, timers,
                   scrollsThisFrame, revealRuns, headerRuns, hlToggles>>

(***************************************************************************)
(* The host delivers an unhandledrejection event: the listener of          *)
(* ErrorHandler records event.reason.  When that listener throws, the host *)
(* reports its TypeError as an error event of the script's own file, which *)
(* the error listeners then handle.                                        *)
(***************************************************************************)
RejectionEvent(payload) ==
    /\ phase \in {"loading", "ready"}
    /\ LET thrown == "ehRejection" \in listeners /\ handleErrorThrows(payload)
           own    == [has |-> TRUE, name |-> <<"https://", "quinc.example", "/", "script.js">>]
           errs1  == IF "ehRejection" \in listeners
                     THEN handleError(errors, payload, "Unhandled Promise Rejection")
                     ELSE errors
       IN  /\ errorEvents + (IF thrown THEN 2 ELSE 1) <= MaxErrorEvents
           /\ errorEvents' = errorEvents + (IF thrown THEN 2 ELSE 1)
           /\ errors' = IF thrown /\ "ehError" \in listeners
                        THEN handleError(errs1, "Error", "Global Error")
                        ELSE errs1
           /\ lastEvent' = IF thrown
                           THEN [filename |-> own,
                                 heard |-> "tiktokError" \in listeners,
                                 defaultPrevented |->
                                     "tiktokError" \in listeners /\ tiktokListener(own)]
                           ELSE lastEvent
    /\ UNCHANGED <<featVars, docVars, menuVars, timeVars, navVars, firedLate, scriptError, phase, listeners, stepsDone, initError,
                   scrollY, classList, ticking, lastScrollY, rafQueue, inThrottle, timers,
                   scrollsThisFrame, revealRuns, headerRuns, hlToggles>>

(***************************************************************************)
(* The mobile menu.                                                        *)
(***************************************************************************)
\* classList.toggle
\* (variant: classList.add)
ToggleAdd(S, c) == S \cup {c}
\* as written
Toggle(S, c) == IF c \in S THEN S \ {c} ELSE S \cup {c}

\* the icon with the bars glyph
IconReset(S) == (S \ {"fa-times"}) \cup {"fa-bars"}

\* A click on the nav toggle: the toggle listener, then the listener of
\* enhanceAccessibility.  Without a menu the toggle listener of version 1
\* and the listener of enhanceAccessibility end with a TypeError at
\* navMenu.classList.
ToggleClick ==
    /\ phase \in {"loading", "ready"}
    /\ present["navToggle"]
    /\ LET cl == IF "toggleClick" \in listeners /\ present["navMenu"]
                 THEN [classList EXCEPT
                          !["navMenu"] = Toggle(@, "active"),
                          !["icon"] = Toggle(Toggle(@, "fa-bars"), "fa-times")]
                 ELSE classList
       IN  /\ classList' = cl
           /\ ariaExpanded' = IF "a11yClick" \in listeners /\ present["navMenu"]
                              THEN (IF "active" \in cl["navMenu"] THEN "true" ELSE "false")
                              ELSE ariaExpanded
    /\ snap' = IF clicksInRow = 1 THEN snap
               ELSE [menu |-> classList["navMenu"], icon |-> classList["icon"]]
    /\ clicksInRow' = IF clicksInRow = 1 THEN 2 ELSE 1
    /\ UNCHANGED <<featVars, docVars, errVars, timeVars, navVars, firedLate, scriptError, phase, listeners,
                   stepsDone, initError, scrollY, ticking, lastScrollY, rafQueue, inThrottle, timers,
                   scrollsThisFrame, revealRuns, headerRuns, hlToggles>>

\* A click on a nav link: the listener of the top level (initMobileMenuClose)
\* closes the menu and resets the icon; the listener of smoothScroll, which
\* runs after it, finds the menu closed.
NavLinkClick ==
    /\ phase \in {"loading", "ready"}
    /\ classList' = IF "linkClick" \in listeners
                    THEN [classList EXCEPT
                            !["navMenu"] = IF present["navMenu"] THEN @ \ {"active"} ELSE @,
                            !["icon"] = IF present["navToggle"] THEN IconReset(@) ELSE @]
                    ELSE classList
    /\ clicksInRow' = 0
    /\ UNCHANGED <<featVars, docVars, errVars, timeVars, navVars, firedLate, ariaExpanded, snap, scriptError, phase, listeners,
                   stepsDone, initError, scrollY, ticking, lastScrollY, rafQueue, inThrottle,
                   timers, scrollsThisFrame, revealRuns, headerRuns, hlToggles>>

\* KeyboardNavigation.handleKeyboard on Escape:
\* document.querySelector('.nav__menu.active')?.classList.remove('active')
handleKeyboard(cl) ==
    IF present["navMenu"] /\ {"nav__menu", "active"} \subseteq cl["navMenu"]
    THEN [cl EXCEPT !["navMenu"] = @ \ {"active"}]
    ELSE cl

\* the keydown listener of enhanceAccessibility on Escape; it ends with a
\* TypeError at navMenu.classList without a menu
a11yKeydown(cl) ==
    IF present["navMenu"] /\ "active" \in cl["navMenu"]
    THEN [cl EXCEPT !["navMenu"] = @ \ {"active"},
                    !["icon"] = IF present["navToggle"] THEN IconReset(@) ELSE @]
    ELSE cl

\* The Escape key: the keydown listeners of document in registration order,
\* KeyboardNavigation's (registered by initProfessionalFeatures) ahead of
\* enhanceAccessibility's.
EscapeKey ==
    /\ phase \in {"loading", "ready"}
    /\ LET cl1 == IF "kbdKeydown" \in listeners THEN handleKeyboard(classList) ELSE classList
       IN  classList' = IF "a11yKeydown" \in listeners THEN a11yKeydown(cl1) ELSE cl1
    /\ clicksInRow' = 0
    /\ UNCHANGED <<featVars, docVars, errVars, timeVars, navVars, firedLate, ariaExpanded, snap, scriptError, phase, listeners,
                   stepsDone, initError, scrollY, ticking, lastScrollY, rafQueue, inThrottle,
                   timers, scrollsThisFrame, revealRuns, headerRuns, hlToggles>>

Next ==
    \/ RunScript
    \/ DOMContentLoaded
    \/ \E y \in ScrollYs : ScrollEvent(y)
    \/ FrameTick
    \/ \E t \in TimerIds : TimerFire(t)

Spec == Init /\ [][Next]_vars

\* start-up and error events
NextErrors ==
    \/ RunScript
    \/ DOMContentLoaded
    \/ \E payload \in Payloads, f \in Filenames : ErrorEvent(payload, f)
    \/ \E payload \in Payloads : RejectionEvent(payload)

SpecErrors == Init /\ [][NextErrors]_vars

\* scrolling around the reveal boundary
NextBoundary ==
    \/ RunScript
    \/ DOMContentLoaded
    \/ \E y \in BoundaryYs : ScrollEvent(y)
    \/ FrameTick
    \/ \E t \in TimerIds : TimerFire(t)

SpecBoundary == InitFull /\ [][NextBoundary]_vars

\* The window is resized to width w: the resize listener of initNavHighlight
\* lays the highlight bar out again under the active item.
Resize(w) ==
    /\ phase \in {"loading", "ready"}
    /\ w # navHighlight.width
    /\ navHighlight' = IF "navResize" \in listeners /\ activeNavItem # "null"
                       THEN [item |-> activeNavItem, width |-> w]
                       ELSE navHighlight
    /\ UNCHANGED <<featVars, docVars, errVars, menuVars, timeVars, firedLate, activeNavItem, navPending,
                   scriptError, phase, listeners, stepsDone, initError, scrollY, classList,
                   ticking, lastScrollY, rafQueue, inThrottle, timers, scrollsThisFrame,
                   revealRuns, headerRuns, hlToggles>>

\* scrolling across the sections and resizing
NextNav ==
    \/ RunScript
    \/ DOMContentLoaded
    \/ \E y \in NavYs : ScrollEvent(y)
    \/ FrameTick
    \/ \E t \in TimerIds : TimerFire(t)
    \/ \E w \in Widths : Resize(w)

SpecNav == InitFull /\ [][NextNav]_vars

\* scrolling with the firing of the section timers observed
NextTimers ==
    \/ RunScript
    \/ DOMContentLoaded
    \/ \E y \in ScrollYs : ScrollEvent(y)
    \/ FrameTick
    \/ \E t \in TimerIds : ObservedTimerFire(t)

SpecTimers == InitFull /\ [][NextTimers]_vars

\* scroll positions of the throttled back-to-top listener
ThrottleYs == {300, 301}

\* scrolling under a clock
NextThrottle ==
    \/ RunScript
    \/ DOMContentLoaded
    \/ \E y \in ThrottleYs : TimedScrollEvent(y)
    \/ FrameTick
    \/ \E t \in TimerIds : TimedTimerFire(t)
    \/ Tick

SpecThrottle == InitFull /\ [][NextThrottle]_vars

\* start-up and the events of the mobile menu
NextMenu ==
    \/ RunScript
    \/ DOMContentLoaded
    \/ ToggleClick
    \/ NavLinkClick
    \/ EscapeKey

\* from the markup: menu closed, icon with the bars glyph
SpecMenu == Init /\ [][NextMenu]_vars

\* from any class lists of menu and icon
SpecAnyMenu == InitAnyMenu /\ [][NextMenu]_vars

\* start-up alone, over every document
NextBoot == RunScript \/ DOMContentLoaded

SpecBoot == InitBoot /\ [][NextBoot]_vars


(***************************************************************************)
(* The script's top level with the objects initProfessionalFeatures        *)
(* creates: each constructor that completes leaves its object behind.      *)
(***************************************************************************)
RunScriptPro ==
    /\ RunScriptCore
    /\ LET done == ProCompleted(version)
       IN  /\ IF "TypeWriter" \in done /\ heroTitle.present
              THEN LET r == newTypeWriter(heroTitle.text)
                   IN  /\ typeWriter' = r.tw
                       /\ heroTitle' = [heroTitle EXCEPT !.text = r.textContent]
              ELSE UNCHANGED typeVars
           /\ loader' = IF "LoadingAnimation" \in done THEN createLoader ELSE loader
           /\ barWidth' = IF "ScrollProgress" \in done
                          THEN updateProgress(barWidth, scrollY, scrollHeight)
                          ELSE barWidth
    /\ UNCHANGED <<anims, trackVars, scrollHeight>>

(***************************************************************************)
(* The typing effect: a timer of the TypeWriter fires and runs type().     *)
(***************************************************************************)
TypeTimerFire(i) ==
    /\ i \in 1..Len(typeWriter.pending)
    /\ LET r == typeCallback(typeWriter, i)
       IN  /\ typeWriter' = r.tw
           /\ heroTitle' = [heroTitle EXCEPT !.text = r.textContent]
    /\ UNCHANGED <<baseVars, loader, anims, trackVars, progressVars>>

\* a document with every control element and a hero title of any text
InitType ==
    /\ InitState
    /\ classList = [e \in Elems |-> Markup(e)]
    /\ present = [o \in Optional |-> TRUE]
    /\ hasBody = TRUE
    /\ heroTitle \in [present : BOOLEAN, text : Texts]
    /\ typeWriter = NoTypeWriter
    /\ InitLoader /\ InitAnims /\ InitTrack /\ InitProgress

\* start-up and the typing effect
NextType ==
    \/ RunScriptPro
    \/ DOMContentLoaded
    \/ \E i \in 1..MaxTypeTimers : TypeTimerFire(i)

SpecType == InitType /\ [][NextType]_vars

(***************************************************************************)
(* The loading screen.  The host fires the load event once, after the      *)
(* document is ready; a timer fires no earlier than the instant it is due. *)
(***************************************************************************)
WindowLoad ==
    /\ phase = "ready"
    /\ loader.loadAt = -1
    /\ loader' = IF loader.state = "attached"
                 THEN onLoad(loader, now)
                 ELSE [loader EXCEPT !.loadAt = now]
    /\ UNCHANGED <<baseVars, typeVars, anims, trackVars, progressVars>>

\* the pending timer of the loader with callback k fires
LoaderTimerFire(k) ==
    /\ \E t \in loader.pending :
          /\ t.kind = k
          /\ now >= t.due
          /\ LET l == [loader EXCEPT !.pending = @ \ {t}]
             IN  loader' = IF k = "hide" THEN hide(l, now) ELSE removeLoader(l, now)
    /\ UNCHANGED <<baseVars, typeVars, anims, trackVars, progressVars>>

\* the clock advances; it does not stop while a timer waits for its instant
LoaderTick ==
    /\ now < LoaderMaxTime \/ \E t \in loader.pending : t.due > now
    /\ now' = now + LoaderStep
    /\ UNCHANGED <<featVars, docVars, errVars, menuVars, scriptError, phase, listeners,
                   stepsDone, initError, scrollY, classList, ticking, lastScrollY, rafQueue,
                   inThrottle, timers, scrollsThisFrame, revealRuns, headerRuns, hlToggles,
                   throttleDue, lastInvoke, funcRuns, navVars, firedLate>>

\* start-up, the load event and the timers of the loader
NextLoader ==
    \/ RunScriptPro
    \/ DOMContentLoaded
    \/ WindowLoad
    \/ \E k \in {"hide", "remove"} : LoaderTimerFire(k)
    \/ LoaderTick

\* the clock keeps advancing and a timer that is due fires
SpecLoader ==
    /\ InitFull
    /\ [][NextLoader]_vars
    /\ WF_vars(LoaderTick)
    /\ WF_vars(\E k \in {"hide", "remove"} : LoaderTimerFire(k))

(***************************************************************************)
(* A click on a nav link with its animations: the click listeners of the   *)
(* link in registration order (SmoothScroll.init, the menu-closing         *)
(* listener of the top level, smoothScroll).                               *)
(***************************************************************************)
SmoothLinkClick(l) ==
    /\ phase \in {"loading", "ready"}
    /\ LET new == smoothClick(l, scrollY, stepsDone)
           all == anims \o new
       IN  /\ \A k \in {"scrollTo", "scrollToElement"} :
                  Cardinality({i \in 1..Len(all) : all[i].kind = k}) <= MaxAnimations
           /\ anims' = all
    /\ classList' = IF "linkClick" \in listeners
                       \/ ("smoothScroll" \in stepsDone /\ TargetOf(l) # "null"
                           /\ present["navMenu"] /\ "active" \in classList["navMenu"])
                    THEN [classList EXCEPT
                            !["navMenu"] = IF present["navMenu"] THEN @ \ {"active"} ELSE @,
                            !["icon"] = IF present["navToggle"] THEN IconReset(@) ELSE @]
                    ELSE classList
    /\ clicksInRow' = 0
    /\ UNCHANGED <<docVars, errVars, timeVars, navVars, firedLate, ariaExpanded, snap,
                   scriptError, phase, listeners, stepsDone, initError, scrollY, ticking,
                   lastScrollY, rafQueue, inThrottle, timers, scrollsThisFrame, revealRuns,
                   headerRuns, hlToggles>>
    /\ UNCHANGED <<typeVars, loader, trackVars, progressVars>>

\* An animation frame dt units after the last one: the host runs the
\* callbacks requestAnimationFrame holds, in the order they were requested;
\* each writes its position, and the page is left where the last one put it.
AnimationFrame(dt) ==
    /\ \E i \in 1..Len(anims) : anims[i].requested
    /\ anims' = [i \in 1..Len(anims) |->
                    IF anims[i].requested THEN animation(anims[i], dt) ELSE anims[i]]
    /\ LET last == CHOOSE i \in 1..Len(anims) :
                      /\ anims[i].requested
                      /\ \A j \in 1..Len(anims) : anims[j].requested => j <= i
       IN  scrollY' = hostScroll(animation(anims[last], dt), scrollHeight)
    /\ UNCHANGED <<docVars, errVars, menuVars, timeVars, navVars, firedLate, scriptError,
                   phase, listeners, stepsDone, initError, classList, ticking, lastScrollY,
                   rafQueue, inThrottle, timers, scrollsThisFrame, revealRuns, headerRuns,
                   hlToggles>>
    /\ UNCHANGED <<typeVars, loader, trackVars, progressVars>>

\* start-up, clicks on the nav links and animation frames
NextSmooth ==
    \/ RunScriptPro
    \/ DOMContentLoaded
    \/ \E l \in Links : SmoothLinkClick(l)
    \/ \E dt \in 1..MaxFrameGap : AnimationFrame(dt)

\* a document with or without a header
InitSmooth ==
    /\ Init
    /\ \A o \in Optional \ {"header"} : present[o]

SpecSmooth == InitSmooth /\ [][NextSmooth]_vars

(***************************************************************************)
(* Scrolling with the objects of initProfessionalFeatures: the scroll      *)
(* listener of ScrollProgress runs with the script's scroll listeners; the *)
(* IntersectionObserver of AnalyticsTracker reports, some time after the   *)
(* page has moved, every section whose intersection with the viewport has  *)
(* changed since its last report (every section in its first report).      *)
(***************************************************************************)
ProScrollEvent(y) ==
    /\ y <= scrollHeight - InnerHeight
    /\ ScrollCore(y)
    /\ barWidth' = IF "ScrollProgress" \in ProCompleted(version)
                   THEN updateProgress(barWidth, y, scrollHeight)
                   ELSE barWidth
    /\ UNCHANGED <<timeVars, typeVars, loader, anims, trackVars, scrollHeight>>

ObserverCallback ==
    /\ phase \in {"loading", "ready"}
    /\ "AnalyticsTracker" \in ProCompleted(version)
    /\ LET seen(s)  == IF Intersects(s, scrollY) THEN "in" ELSE "out"
           changed  == {s \in Sections : ioSeen[s] # seen(s)}
           r        == observerCallback(1, changed, scrollY, tracked, events)
       IN  /\ changed # {}
           /\ ioSeen' = [s \in Sections |-> seen(s)]
           /\ tracked' = r.tracked
           /\ events' = r.events
    /\ UNCHANGED <<baseVars, typeVars, loader, anims, progressVars>>

\* a click on the page's button: trackEvent('Button', 'Click', text)
ButtonClick ==
    /\ phase \in {"loading", "ready"}
    /\ "AnalyticsTracker" \in ProCompleted(version)
    /\ Cardinality({i \in 1..Len(events) : events[i].category = "Button"}) < MaxButtonClicks
    /\ events' = Append(events, [category |-> "Button", action |-> "Click", label |-> "text"])
    /\ UNCHANGED <<baseVars, typeVars, loader, anims, tracked, ioSeen, progressVars>>

\* a document with every control element, as tall as the window or taller
InitPro ==
    /\ InitState
    /\ classList = [e \in Elems |-> Markup(e)]
    /\ present = [o \in Optional |-> TRUE]
    /\ hasBody = TRUE
    /\ InitNoTitle /\ InitLoader /\ InitAnims /\ InitTrack
    /\ barWidth = NoWidth
    /\ scrollHeight \in {InnerHeight, PageHeight}

\* start-up, scrolling, the observer's reports and button clicks
NextPro ==
    \/ RunScriptPro
    \/ DOMContentLoaded
    \/ \E y \in ProYs : ProScrollEvent(y)
    \/ FrameTick
    \/ \E t \in TimerIds : TimerFire(t)
    \/ ObserverCallback
    \/ ButtonClick

SpecPro == InitPro /\ [][NextPro]_vars

(***************************************************************************)
(* Properties.                                                             *)
(***************************************************************************)
\* a step in which revealOnScroll ran: by a scroll event or by initializeApp
Evaluated ==
    \/ revealRuns' = revealRuns + 1
    \/ "revealOnScroll" \in stepsDone' /\ "revealOnScroll" \notin stepsDone

\* a step that delivers a scroll event
Scrolled == scrollsThisFrame' = scrollsThisFrame + 1

\* C1 as stated: once revealOnScroll has run at the current position, a
\* reveal element carries 'active' exactly when its top is less than
\* innerHeight - 100, whatever was evaluated before.
C1_ActiveIffAboveMargin ==
    "revealOnScroll" \in stepsDone =>
        \A e \in Content :
            IsRevealElement(classList, e) =>
                ("active" \in classList[e] <=> Top(e, scrollY) < InnerHeight - RevealMargin)

\* C1 amended: after an execution of revealOnScroll a reveal element that
\* is no <section> of version 1 carries 'active' exactly when its top is
\* less than innerHeight - 100 or it carried 'active' before the execution;
\* a reveal element that is a <section> of version 1 carries it exactly
\* when its top is inside the highlight band.
C1_ActiveAfterEvaluation ==
    [][Evaluated =>
        \A e \in Content :
            IsRevealElement(classList', e) =>
                ("active" \in classList'[e] <=>
                    IF version = 1 /\ e \in {"about", "edu"}
                    THEN /\ Top(e, scrollY') < InnerHeight - HighlightMargin
                         /\ 2 * Top(e, scrollY') > -InnerHeight
                    ELSE \/ "active" \in classList[e]
                         \/ Top(e, scrollY') < InnerHeight - RevealMargin)]_vars

\* the card was revealed by an earlier evaluation and an evaluation at a
\* position where it is below the margin has left the marker in place
C1_Witness ==
    /\ "active" \in classList["card"]
    /\ Top("card", scrollY) >= InnerHeight - RevealMargin
    /\ revealRuns >= 2

C4_RevealAtMostOncePerFrame == revealRuns <= 1

\* C4 amended: revealOnScroll is not throttled: every scroll event that is
\* delivered after initializeApp has registered its scroll listener
\* executes revealOnScroll exactly once, so N scroll events between two
\* frame ticks execute it N times (and a scroll event delivered before the
\* registration, or when initializeApp failed before it, never does).
C4_RevealOncePerScrollEvent ==
    [][Scrolled =>
        revealRuns' = revealRuns + (IF "addScrollListener" \in stepsDone THEN 1 ELSE 0)]_vars

\* several scroll events between two frame ticks, each with its evaluation
C4_Witness ==
    /\ scrollsThisFrame = MaxScrollsPerFrame
    /\ revealRuns = MaxScrollsPerFrame
    /\ revealRuns >= 2

\* C5: whatever the number of scroll events between two frame ticks, the
\* next frame tick executes updateHeader at most once.
C5_HeaderAtMostOncePerFrame == headerRuns <= 1

\* the frame tick after a burst of scroll events has one callback to run
C5_Witness ==
    /\ scrollsThisFrame = MaxScrollsPerFrame
    /\ scrollsThisFrame >= 2
    /\ Len(rafQueue) = 1

\* C6: when no updateHeader callback is pending, the header carries
\* 'scrolled' exactly when the scroll position is greater than 50.
C6_HeaderFollowsFinalPosition ==
    /\ phase # "parsing"
    /\ present["header"]
    /\ \A i \in 1..Len(rafQueue) : rafQueue[i] # "updateHeader"
    => ("scrolled" \in classList["header"] <=> scrollY > HeaderThreshold)

\* the page came to rest at exactly 50 and the frame after it cleared the
\* marker
C6_Witness ==
    /\ present["header"]
    /\ scrollY = HeaderThreshold
    /\ lastScrollY = HeaderThreshold
    /\ headerRuns = 1
    /\ rafQueue = <<>>
    /\ "scrolled" \notin classList["header"]

\* C7: when the throttle window is closed (its timer has fired and no
\* scroll event has followed), the back-to-top button carries 'show'
\* exactly when pageYOffset is greater than 300.
C7_BackToTopFollowsFinalPosition ==
    /\ phase # "parsing"
    /\ present["backToTop"]
    /\ timers["inThrottle"] = 0
    => ("show" \in classList["backToTop"] <=> scrollY > BackToTopThreshold)

\* C8: ticking is true exactly when one updateHeader callback is pending,
\* never more than one is pending; a scroll event while ticking schedules
\* nothing, a scroll event while not ticking schedules one callback and
\* sets ticking, and the callback clears ticking when it runs.
C8_ThrottleFlagProtocol ==
    /\ [](/\ PendingHeader(rafQueue) <= 1
          /\ ticking <=> PendingHeader(rafQueue) = 1)
    /\ [][/\ Scrolled /\ ticking => rafQueue' = rafQueue /\ ticking'
          /\ Scrolled /\ ~ticking =>
                /\ rafQueue' = Append(rafQueue, "updateHeader")
                /\ ticking'
          /\ PendingHeader(rafQueue) > 0 /\ PendingHeader(rafQueue') = 0 => ~ticking']_vars

\* the callback has cleared the flag and a later scroll event set it again
C8_Witness ==
    /\ headerRuns = 1
    /\ ticking
    /\ scrollsThisFrame >= 2
    /\ rafQueue = <<"updateHeader">>

\* C9: initializeApp never lets an exception out, whichever optional
\* control elements are missing.
C9_InitNeverRaises ==
    phase = "ready" => initError \in {"none", "caught"}

\* initializeApp ran without the nav toggle: the exception was caught
C9_Witness ==
    /\ phase = "ready"
    /\ ~present["navToggle"]
    /\ initError = "caught"

\* C10: when an optional control element is missing, initializeApp throws
\* and logs nothing and its other setup steps still run: the error
\* handlers, performance monitoring, the registration of the scroll-reveal
\* listener and the first reveal evaluation.
C10_MissingElementIsSilentNoOp ==
    /\ phase = "ready"
    /\ \E o \in Optional : ~present[o]
    => /\ initError = "none"
       /\ {"handleError", "measurePerformance", "addScrollListener", "revealOnScroll"}
              \subseteq stepsDone

\* C11 as stated: every setup step runs inside the try of initializeApp, so
\* no failure of a setup step propagates as an uncaught error.
C11_AllSetupInsideTry == scriptError # "uncaught"

\* C11: only the statements of initializeApp lie inside its try.  A failure
\* there is caught; initProfessionalFeatures runs at the script's top level,
\* outside any try, and when one of its constructors fails (the document has
\* no body) the exception is uncaught and ends the script before init() is
\* reached, so initializeApp never runs.
C11_OnlyInitializeAppGuarded ==
    /\ phase = "ready" => initError # "uncaught" /\ scriptError = "none"
    /\ phase \in {"loading", "ready"} => hasBody
    /\ (phase # "parsing" /\ ~hasBody) =>
           /\ scriptError = "uncaught"
           /\ phase = "aborted"
           /\ stepsDone = {}
           /\ "DOMContentLoaded" \notin listeners

\* a script that ended with an uncaught TypeError from LoadingAnimation,
\* after KeyboardNavigation registered its listener
C11_Witness ==
    /\ phase = "aborted"
    /\ scriptError = "uncaught"
    /\ version = 2
    /\ "kbdKeydown" \in listeners

\* C12 as stated: every error event and every unhandledrejection event
\* delivered to window appends exactly one record to ErrorHandler.errors,
\* whatever its payload.
C12_EveryEventRecorded == Len(errors) = errorEvents

\* C13: the capturing error listener calls preventDefault on an error event
\* exactly when the event's filename contains 'tiktok.com/embed.js'; an event
\* with another filename, an empty one or none is left as it was.
C13_PreventDefaultIffTikTokEmbed ==
    /\ lastEvent.heard =>
          (lastEvent.defaultPrevented <=>
              /\ lastEvent.filename.has
              /\ lastEvent.filename.name \in
                    {<<"https://", "www.", "tiktok.com", "/", "embed.js">>,
                     <<"https://", "www.", "tiktok.com", "/", "embed.js", "?v=2">>,
                     <<"tiktok.com", "/", "embed.js">>})
    /\ ~lastEvent.heard => ~lastEvent.defaultPrevented

\* an event of the embed script's URL with a query string, suppressed
C13_Witness ==
    /\ lastEvent.heard
    /\ lastEvent.defaultPrevented
    /\ lastEvent.filename.name = <<"https://", "www.", "tiktok.com", "/", "embed.js", "?v=2">>

\* C14: two clicks on the nav toggle with no other event between them leave
\* the class lists of the menu ('active') and of the icon ('fa-bars',
\* 'fa-times') as they were before the first click, whatever they were.
C14_DoubleToggleIsIdentity ==
    clicksInRow = 2 =>
        /\ classList["navMenu"] = snap.menu
        /\ classList["icon"] = snap.icon

\* two clicks handled by the toggle listener, on an icon that carried both
\* glyph classes
C14_Witness ==
    /\ clicksInRow = 2
    /\ "toggleClick" \in listeners
    /\ {"fa-bars", "fa-times"} \subseteq snap.icon
    /\ "active" \in snap.menu

\* C17 as stated: from a closed menu with the bars icon, after any toggle
\* clicks, nav-link clicks and Escape presses (both keydown listeners being
\* registered before the first event) the icon carries 'fa-times' exactly
\* when the menu carries 'active' and 'fa-bars' exactly when not.
C17_IconFollowsMenu ==
    (present["navMenu"] /\ present["navToggle"] /\ readyState # "loading") =>
        /\ "fa-times" \in classList["icon"] <=> "active" \in classList["navMenu"]
        /\ "fa-bars" \in classList["icon"] <=> "active" \notin classList["navMenu"]

\* C18 as stated: once enhanceAccessibility has run (before the first
\* event), aria-expanded is 'true' exactly when the menu carries 'active'.
C18_AriaExpandedFollowsMenu ==
    ("enhanceAccessibility" \in stepsDone /\ present["navMenu"] /\ readyState # "loading") =>
        (ariaExpanded = "true" <=> "active" \in classList["navMenu"])

C16_ThrottleInterval ==
    /\ [](inThrottle => (lastInvoke >= 0 /\ timers["inThrottle"] = 1))
    /\ [][
          /\ (Scrolled /\ ~inThrottle) =>
                /\ funcRuns' # funcRuns
                /\ lastInvoke' = now
                /\ inThrottle'
                /\ (lastInvoke >= 0 => now - lastInvoke >= ThrottleLimit)
          /\ (Scrolled /\ inThrottle) =>
                /\ funcRuns' = funcRuns
                /\ classList'["backToTop"] = classList["backToTop"]
                /\ timers'["inThrottle"] = timers["inThrottle"]
                /\ inThrottle'
          /\ ~Scrolled => funcRuns' = funcRuns
          /\ (inThrottle /\ ~inThrottle') => now - lastInvoke >= ThrottleLimit
       ]_vars

\* the handler has run a second time, exactly `limit` milliseconds after
\* its first run
C16_Witness ==
    /\ lastInvoke = ThrottleLimit
    /\ now = lastInvoke
    /\ inThrottle
    /\ funcRuns = 0

C21_TypeWriterInvariant ==
    typeWriter.active =>
        /\ Len(heroTitle.text) <= Len(typeWriter.text)
        /\ heroTitle.text = SubSeq(typeWriter.text, 1, Len(heroTitle.text))
        /\ typeWriter.index >= 0
        /\ typeWriter.index <= (IF Len(typeWriter.text) > 0 THEN Len(typeWriter.text) - 1 ELSE 0)
        /\ Len(typeWriter.pending) <= 1

\* the TypeWriter is deleting a title of three characters and shows its
\* first character
C21_Witness ==
    /\ typeWriter.active
    /\ typeWriter.text = <<"a", "b", "a">>
    /\ typeWriter.isDeleting
    /\ heroTitle.text = <<"a">>

\* C22 as stated: every execution of type() on a text that is not empty
\* changes the length of the displayed text by exactly one character, up
\* while typing and down while deleting.
C22_OneCharacterPerStep ==
    [][(typeWriter.active /\ typeWriter.text # <<>> /\ typeWriter' # typeWriter) =>
          LET deleting == typeWriter.isDeleting \/ typeWriter.pending = <<"pause">>
          IN  Len(heroTitle'.text) = Len(heroTitle.text) + (IF deleting THEN -1 ELSE 1)
    ]_vars


\* C23: the loader receives 'hide' no earlier than 1000 ms after the load
\* event and is removed no earlier than 500 ms after that, so never before
\* it is hidden; a removed loader stays removed; and once the load event
\* has fired the loader is eventually removed.
C23_LoaderLifecycle ==
    /\ [](loader.hide =>
            /\ loader.loadAt >= 0
            /\ loader.hideAt >= loader.loadAt + 1000)
    /\ [](loader.state = "removed" =>
            /\ loader.hide
            /\ loader.removedAt >= loader.hideAt + 500)
    /\ [][loader.state = "removed" => loader'.state = "removed"]_vars
    /\ ((loader.state = "attached" /\ loader.loadAt >= 0) ~> loader.state = "removed")

\* the load event fired after the script had run for a while, and the
\* loader has been hidden and removed
C23_Witness ==
    /\ loader.state = "removed"
    /\ loader.loadAt > 0
    /\ loader.hide
    /\ loader.pending = {}


\* C24: an animation that has run requests another frame exactly while the
\* elapsed time is below its duration, so it ends after at most duration + 1
\* frames of increasing timestamps; every position it writes lies between
\* its start and its target, and the last one is exactly start + distance.
C24_AnimationTerminatesAtTarget ==
    \A i \in 1..Len(anims) :
        LET a  == anims[i]
            d3 == a.duration * a.duration * a.duration
            lo == IF a.distance >= 0 THEN a.start ELSE a.start + a.distance
            hi == IF a.distance >= 0 THEN a.start + a.distance ELSE a.start
        IN  a.elapsed >= 0 =>
                /\ a.requested <=> (a.elapsed < a.duration)
                /\ a.frames <= a.duration + 1
                /\ a.written >= lo * d3
                /\ a.written <= hi * d3
                /\ ~a.requested => a.written = (a.start + a.distance) * d3

\* an animation over a distance has ended in a frame that came later than
\* its duration after its first frame
C24_Witness ==
    \E i \in 1..Len(anims) :
        /\ ~anims[i].requested
        /\ anims[i].distance # 0
        /\ anims[i].elapsed > anims[i].duration


\* C25: this.events holds at most one 'Section'/'View' event per section,
\* however often the section enters and leaves the viewport, and every step
\* leaves the events recorded so far in place, in order and unchanged.
C25_OneViewPerSection ==
    /\ [](\A s \in Sections :
            Cardinality({i \in 1..Len(events) :
                            events[i] = [category |-> "Section", action |-> "View",
                                         label |-> SectionId(s)]}) <= 1)
    /\ [][/\ Len(events') >= Len(events)
          /\ SubSeq(events', 1, Len(events)) = events
       ]_vars

\* the hero section and section "edu" are tracked, and the observer has
\* reported the hero section in view again after the page came back to the
\* top
C25_Witness ==
    /\ {"hero", "edu"} \subseteq tracked
    /\ scrollY = 0
    /\ ioSeen["hero"] = "in"
    /\ ioSeen["edu"] = "out"
    /\ Len(events) >= 2

\* C26 as stated: once ScrollProgress has been constructed the width of the
\* bar is a percentage between 0 and 100, also in a document no taller than
\* the window.
C26_WidthIsPercentage ==
    (phase # "parsing" /\ version = 1) =>
        /\ barWidth.kind = "percent"
        /\ barWidth.num >= 0
        /\ barWidth.num <= 100 * barWidth.den

====
